---- MODULE Spec2Model ----
(***************************************************************************)
(* Model of the Elasticsearch benchmark harness (run_elasticsearch.py):    *)
(* main() as a sequential state machine over the service handle, the       *)
(* corpus files and the report files, generate_test_queries() and the      *)
(* Search Benchmark / Indexing drivers it calls; and of the container     *)
(* manager (docker_setup.py): its commands, each run to its end against    *)
(* the docker installation and the managed container.                      *)
(*                                                                         *)
(* Conventions.  A Python name that may be unbound, and a value that may   *)
(* be "no data", is a sequence of length 0 (unset) or 1 (<<value>>).       *)
(* A query string is kept as the sequence of its whitespace-separated      *)
(* words.  Latencies are whole milliseconds; the aggregates derived from   *)
(* them are kept in hundredths of a millisecond so that the mean, the      *)
(* median and the interpolated percentiles stay integers.                  *)
(***************************************************************************)
EXTENDS Integers, Sequences, FiniteSets, TLC

VARIABLES
    pc,                 \* position of main()
    fs,                 \* corpus files present on disk
    indexer,            \* the service handle: "none" | "connected"
    indices,            \* service state: index name -> <<>> | <<doc count>>
    locals,             \* main()'s local names, each unbound (<<>>) or bound
    search_args,        \* arguments of each batch_search call, in call order
    written,            \* report files opened for writing, in order
    calls,              \* operations invoked, in order, with their result
    raised,             \* the exception that ended the run, if any
    outcome,            \* which exit path main() took
    exit_code,          \* main()'s return value (the process exit status)
    guidance,           \* remediation commands printed on the exit path
    bs_queries, bs_responses, bs_size, bs_result,   \* a batch_search call on its own
    gq_heap, gq_rets, gq_mutations,                  \* generate_test_queries() calls
    ag_latencies, ag_runs,                           \* aggregates of a latency sequence
    dk_docker,          \* the docker installation: "missing" | "down" | "up"
    dk_container,       \* the managed container: "absent" | "stopped" | "running"
    dk_created,         \* containers created since the last removal
    dk_last             \* the last docker_setup.py command and how it went

endVars == <<raised, outcome, exit_code, guidance>>

mainVars == <<pc, fs, indexer, indices, locals, search_args, written, calls, endVars>>

bsVars == <<bs_queries, bs_responses, bs_size, bs_result>>

gqVars == <<gq_heap, gq_rets, gq_mutations>>

agVars == <<ag_latencies, ag_runs>>

dkVars == <<dk_docker, dk_container, dk_created, dk_last>>

vars == <<mainVars, bsVars, gqVars, agVars, dkVars>>

\* ------------------------------------------------------------------ bounds

\* Most valid or malformed lines a corpus file holds.
MaxCorpus == 2

\* Largest elapsed indexing time the service is given, in seconds.
MaxElapsed == 1

\* Largest per-query latency the service is given, in milliseconds.
MaxLat == 2

\* Largest index store size the service reports, in megabytes.
MaxStoreMB == 1

\* Longest query sequence handed to a batch_search call on its own.
MaxQ == 3

\* Most generate_test_queries() calls, and most mutations by their callers.
MaxGenCalls == 3

MaxMutations == 2

\* Length and largest latency (ms) of a latency sequence whose aggregates
\* are computed on their own, and how often they are computed.
MaxAggLen == 3

MaxAggVal == 3

MaxAggRuns == 2

\* Commands of docker_setup.py run one after the other.
MaxCommands == 3

\* --------------------------------------------------------------- constants

news_file == "data/raw/news/news_raw.jsonl"

wiki_file == "data/raw/wiki/wiki_raw.jsonl"

news_index == "esindex-v1.0-news"

wiki_index == "esindex-v1.0-wiki"

\* load_jsonl_data(..., limit=5000)
LoadLimit == 5000

\* batch_search(..., size=10)
SearchSize == 10

DataDownloader == "python src/utils/data_downloader.py"

DockerStart == "python docker_setup.py start"

DockerStatus == "python docker_setup.py status"

DockerLogs == "python docker_setup.py logs"

SummaryFile == "results/metrics/summary_report.json"

IndexNames == {news_index, wiki_index}

CorpusFiles == {news_file, wiki_file}

\* The classes of exception a call may raise, as main()'s handlers tell them
\* apart: TimeoutError and every other class fall to `except Exception`.
Exc == {"FileNotFoundError", "ConnectionError", "TimeoutError", "Exception"}

\* ----------------------------------------------------------------- helpers

None == <<>>

Some(x) == <<x>>

IsSet(v) == Len(v) = 1

Val(v) == v[1]

RECURSIVE SumSeq(_)
SumSeq(s) == IF s = <<>> THEN 0 ELSE Head(s) + SumSeq(Tail(s))

RECURSIVE Insert(_, _)
Insert(x, s) ==
    IF s = <<>> THEN <<x>>
    ELSE IF x <= Head(s) THEN <<x>> \o s
    ELSE <<Head(s)>> \o Insert(x, Tail(s))

RECURSIVE Sorted(_)
Sorted(s) == IF s = <<>> THEN <<>> ELSE Insert(Head(s), Sorted(Tail(s)))

Take(s, n) == SubSeq(s, 1, IF Len(s) < n THEN Len(s) ELSE n)

\* ---------------------------------------------------- generate_test_queries

\* A query list holding one five-word query.
generate_test_queries_long ==
    << <<"artificial", "intelligence", "machine", "learning", "systems">> >>

generate_test_queries ==
    << <<"artificial", "intelligence", "machine", "learning">>,
       <<"software", "development", "programming">>,
       <<"data", "science", "analytics">>,
       <<"cloud", "computing", "infrastructure">>,
       <<"cybersecurity", "network", "protection">>,
       <<"quantum", "computing", "research">>,
       <<"climate", "change", "environment">>,
       <<"space", "exploration", "technology">>,
       <<"medical", "research", "health">>,
       <<"renewable", "energy", "solar">>,
       <<"genetic", "engineering", "biology">>,
       <<"economic", "policy", "government">>,
       <<"election", "campaign", "politics">>,
       <<"international", "relations", "diplomacy">>,
       <<"education", "system", "reform">>,
       <<"transportation", "infrastructure">>,
       <<"financial", "markets", "investment">>,
       <<"social", "media", "platform">>,
       <<"healthcare", "insurance", "coverage">>,
       <<"technology">>,
       <<"science">>,
       <<"education">>,
       <<"quantum", "entanglement", "photon">>,
       <<"blockchain", "cryptocurrency", "decentralized">> >>

\* ------------------------------------------------- the drivers (es_indexer)

\* load_jsonl_data(path, limit): the valid records of the file, in source
\* order, at most `limit` of them; malformed lines are skipped and counted;
\* no valid record at all is an EmptyCorpusError.  A document is known by
\* the number of the line it came from.
load_jsonl_data(lines, limit) ==
    LET valid == SelectSeq([i \in 1..Len(lines) |-> i], LAMBDA i : lines[i] = "ok")
        docs == Take(valid, limit)
    IN  [docs |-> docs,
         warnings |-> Len(lines) - Len(valid),
         error |-> IF docs = <<>> THEN Some("EmptyCorpusError") ELSE None]

\* What a corpus file may hold.
CorpusContents == UNION {[1..n -> {"ok", "bad"}] : n \in 0..MaxCorpus}

\* index_documents(index, docs): the IndexingRun.  The throughput is undefined
\* (<<>>) when no time elapsed, never a division by zero.
index_documents(docs, elapsed) ==
    [total_docs |-> Len(docs),
     elapsed_seconds |-> elapsed,
     docs_per_second |-> IF elapsed = 0 THEN None ELSE Some(Len(docs) \div elapsed)]

\* The values of the latency entries that hold one, in order.
Recorded(latencies) ==
    LET kept == SelectSeq(latencies, IsSet)
    IN  [i \in 1..Len(kept) |-> Val(kept[i])]

\* The p-th percentile of a sorted, non-empty sequence by linear interpolation
\* between closest ranks, in hundredths.
Percentile(s, p) ==
    LET pos == (Len(s) - 1) * p
        lo == pos \div 100
        frac == pos % 100
    IN  IF lo + 2 <= Len(s)
        THEN 100 * s[lo + 1] + frac * (s[lo + 2] - s[lo + 1])
        ELSE 100 * s[lo + 1]

\* Aggregates that takes the recorded latencies in arrival order, unsorted.
AggregatesUnsorted(latencies) ==
    LET s == Recorded(latencies)
        n == Len(s)
    IN  IF n = 0
        THEN [mean_latency_ms |-> 0, median_latency_ms |-> 0, p95_latency_ms |-> 0,
              p99_latency_ms |-> 0, min_latency_ms |-> 0, max_latency_ms |-> 0]
        ELSE [mean_latency_ms |-> (100 * SumSeq(s)) \div n,
              median_latency_ms |-> Percentile(s, 50),
              p95_latency_ms |-> Percentile(s, 95),
              p99_latency_ms |-> Percentile(s, 99),
              min_latency_ms |-> 100 * s[1],
              max_latency_ms |-> 100 * s[n]]

\* The aggregates of a SearchRun, from its latency sequence alone: entries
\* of failed queries hold no value and are left out; no value at all gives
\* zeros.
Aggregates(latencies) ==
    LET s == Sorted(Recorded(latencies))
        n == Len(s)
    IN  IF n = 0
        THEN [mean_latency_ms |-> 0, median_latency_ms |-> 0, p95_latency_ms |-> 0,
              p99_latency_ms |-> 0, min_latency_ms |-> 0, max_latency_ms |-> 0]
        ELSE [mean_latency_ms |-> (100 * SumSeq(s)) \div n,
              median_latency_ms |-> Percentile(s, 50),
              p95_latency_ms |-> Percentile(s, 95),
              p99_latency_ms |-> Percentile(s, 99),
              min_latency_ms |-> 100 * s[1],
              max_latency_ms |-> 100 * s[n]]

\* QueryLoop that stops at the first failed query.
RECURSIVE QueryLoopAborting(_, _, _, _, _)
QueryLoopAborting(index, queries, size, responses, acc) ==
    IF queries = <<>> THEN acc
    ELSE LET r == Head(responses)
             step == [issued |-> Append(acc.issued,
                                     [index |-> index, query |-> Head(queries), size |-> size]),
                      latencies |-> Append(acc.latencies, r),
                      failed |-> acc.failed + (IF IsSet(r) THEN 0 ELSE 1)]
         IN  IF IsSet(r)
             THEN QueryLoopAborting(index, Tail(queries), size, Tail(responses), step)
             ELSE step

\* The query loop of batch_search: each query is sent in turn and its
\* response awaited; responses[i] is the i-th response of the service, a
\* latency <<ms>> or a failure <<>>.  A failure is recorded and counted, and
\* the loop goes on.
RECURSIVE QueryLoop(_, _, _, _, _)
QueryLoop(index, queries, size, responses, acc) ==
    IF queries = <<>> THEN acc
    ELSE LET r == Head(responses)
         IN  QueryLoop(index, Tail(queries), size, Tail(responses),
                 [issued |-> Append(acc.issued,
                                 [index |-> index, query |-> Head(queries), size |-> size]),
                  latencies |-> Append(acc.latencies, r),
                  failed |-> acc.failed + (IF IsSet(r) THEN 0 ELSE 1)])

\* batch_search that keeps a latency only for the queries that succeeded.
batch_search_dropping_failed(index, queries, size, responses) ==
    LET run == QueryLoop(index, queries, size, responses,
                         [issued |-> <<>>, latencies |-> <<>>, failed |-> 0])
        dead == Len(queries) > 0 /\ run.failed = Len(queries)
        agg == Aggregates(run.latencies)
    IN  [issued |-> run.issued,
         error |-> IF dead THEN Some("BenchmarkFailedError") ELSE None,
         stats |-> IF dead THEN None
                   ELSE Some([num_queries |-> Len(queries),
                              failed_queries |-> run.failed,
                              latencies_ms |-> SelectSeq(run.latencies, IsSet),
                              mean_latency_ms |-> agg.mean_latency_ms,
                              median_latency_ms |-> agg.median_latency_ms,
                              p95_latency_ms |-> agg.p95_latency_ms,
                              p99_latency_ms |-> agg.p99_latency_ms,
                              min_latency_ms |-> agg.min_latency_ms,
                              max_latency_ms |-> agg.max_latency_ms])]

\* batch_search(index, queries, size): the SearchRun, or BenchmarkFailedError
\* when every query of a non-empty sequence failed.
batch_search(index, queries, size, responses) ==
    LET run == QueryLoop(index, queries, size, responses,
                         [issued |-> <<>>, latencies |-> <<>>, failed |-> 0])
        dead == Len(queries) > 0 /\ run.failed = Len(queries)
        agg == Aggregates(run.latencies)
    IN  [issued |-> run.issued,
         error |-> IF dead THEN Some("BenchmarkFailedError") ELSE None,
         stats |-> IF dead THEN None
                   ELSE Some([num_queries |-> Len(queries),
                              failed_queries |-> run.failed,
                              latencies_ms |-> run.latencies,
                              mean_latency_ms |-> agg.mean_latency_ms,
                              median_latency_ms |-> agg.median_latency_ms,
                              p95_latency_ms |-> agg.p95_latency_ms,
                              p99_latency_ms |-> agg.p99_latency_ms,
                              min_latency_ms |-> agg.min_latency_ms,
                              max_latency_ms |-> agg.max_latency_ms])]

\* get_index_stats(index): the FootprintReport of an index the service holds.
get_index_stats(index, docs, bytes) ==
    [index |-> index,
     doc_count |-> docs,
     store_size_bytes |-> bytes,
     store_size_mb |-> bytes \div (1024 * 1024)]

\* Store sizes the service may report.
StoreSizes == {mb * 1024 * 1024 : mb \in 0..MaxStoreMB}

\* Canned responses of the service to a sequence of n queries: latencies that
\* vary from query to query, the same latency for every query, a failure of
\* the first or of the last query, a failure of every query.
Varied(n) == [i \in 1..n |-> Some(1 + (i % MaxLat))]

ResponseProfiles(n) ==
    IF n = 0 THEN {<<>>}
    ELSE {Varied(n), [i \in 1..n |-> Some(1)], [i \in 1..n |-> None]}
         \cup {[Varied(n) EXCEPT ![k] = None] : k \in {1, n}}

\* ------------------------------------------------------------------ main()

NoLocals ==
    [news_docs |-> None, wiki_docs |-> None, news_stats |-> None, wiki_stats |-> None,
     test_queries |-> None, news_search_stats |-> None, wiki_search_stats |-> None,
     news_memory |-> None, wiki_memory |-> None, summary |-> None]

MainInit ==
    /\ pc = "ensure_directories"
    /\ fs \in SUBSET CorpusFiles
    /\ indexer = "none"
    /\ indices = [n \in IndexNames |-> None]
    /\ locals = NoLocals
    /\ search_args = <<>>
    /\ written = <<>>
    /\ calls = <<>>
    /\ raised = None
    /\ outcome = "running"
    /\ exit_code = None
    /\ guidance = {}

\* Handler with `except Exception` written first: it catches every class.
HandlerBroadFirst(e) ==
    [outcome |-> "unexpected_error", ret |-> 1, guidance |-> {DockerStatus, DockerLogs}]

\* The except clauses of main(), tried in order.
Handler(e) ==
    IF e = "FileNotFoundError"
    THEN [outcome |-> "file_not_found", ret |-> 1, guidance |-> {DataDownloader}]
    ELSE IF e = "ConnectionError"
    THEN [outcome |-> "connection_error", ret |-> 1, guidance |-> {DockerStart}]
    ELSE [outcome |-> "unexpected_error", ret |-> 1,
          guidance |-> {DockerStatus, DockerLogs}]

\* RaiseIn with a timed-out operation issued again instead of ending the run.
RaiseInRetried(op, ds, e) ==
    /\ calls' = Append(calls, [op |-> op, ds |-> ds, ok |-> FALSE])
    /\ IF e = "TimeoutError"
       THEN /\ pc' = pc
            /\ UNCHANGED endVars
       ELSE /\ pc' = "done"
            /\ raised' = Some([op |-> op, ds |-> ds, exc |-> e])
            /\ outcome' = Handler(e).outcome
            /\ exit_code' = Some(Handler(e).ret)
            /\ guidance' = Handler(e).guidance

\* Operation `op` raises e inside the try block: control leaves the block for
\* the matching handler, which prints its guidance and returns.
RaiseIn(op, ds, e) ==
    /\ pc' = "done"
    /\ calls' = Append(calls, [op |-> op, ds |-> ds, ok |-> FALSE])
    /\ raised' = Some([op |-> op, ds |-> ds, exc |-> e])
    /\ outcome' = Handler(e).outcome
    /\ exit_code' = Some(Handler(e).ret)
    /\ guidance' = Handler(e).guidance

\* Operation `op` returns and main() goes on to `next`.
Returns(op, ds, next) ==
    /\ pc' = next
    /\ calls' = Append(calls, [op |-> op, ds |-> ds, ok |-> TRUE])
    /\ UNCHANGED endVars

\* ensure_directories() runs before the try block; os.makedirs(exist_ok=True)
\* of the three result directories is taken to succeed.
EnsureDirectories ==
    /\ pc = "ensure_directories"
    /\ Returns("ensure_directories", "-", "connect")
    /\ UNCHANGED <<fs, indexer, indices, locals, search_args, written, bsVars, gqVars, agVars, dkVars>>

Connect ==
    /\ pc = "connect"
    /\ \/ /\ indexer' = "connected"
          /\ Returns("connect", "-", "check_news")
       \/ /\ \E e \in Exc : RaiseIn("connect", "-", e)
          /\ UNCHANGED indexer
    /\ UNCHANGED <<fs, indices, locals, search_args, written, bsVars, gqVars, agVars, dkVars>>

\* CheckFile without the existence test.
CheckFileIgnored(here, file, next) ==
    /\ pc = here
    /\ pc' = next
    /\ UNCHANGED <<fs, indexer, indices, locals, search_args, written, calls, endVars,
                   bsVars, gqVars, agVars, dkVars>>

\* if not os.path.exists(file): print the guidance, return 1
CheckFile(here, file, next) ==
    /\ pc = here
    /\ IF file \in fs
       THEN /\ pc' = next
            /\ UNCHANGED endVars
       ELSE /\ pc' = "done"
            /\ outcome' = "data_missing"
            /\ exit_code' = Some(1)
            /\ guidance' = {DataDownloader}
            /\ UNCHANGED raised
    /\ UNCHANGED <<fs, indexer, indices, locals, search_args, written, calls, bsVars, gqVars, agVars, dkVars>>

LoadCorpus(here, ds, name, next) ==
    /\ pc = here
    /\ \/ \E lines \in CorpusContents :
            LET r == load_jsonl_data(lines, LoadLimit)
            IN  IF IsSet(r.error)
                THEN RaiseIn("load", ds, "Exception") /\ UNCHANGED locals
                ELSE /\ locals' = [locals EXCEPT ![name] = Some(r.docs)]
                     /\ Returns("load", ds, next)
       \/ /\ \E e \in Exc : RaiseIn("load", ds, e)
          /\ UNCHANGED locals
    /\ UNCHANGED <<fs, indexer, indices, search_args, written, bsVars, gqVars, agVars, dkVars>>

\* create_index(index): the index exists and is empty afterwards.
CreateIndex(here, ds, index, next) ==
    /\ pc = here
    /\ \/ /\ indices' = [indices EXCEPT ![index] = Some(0)]
          /\ Returns("create_index", ds, next)
       \/ /\ \E e \in Exc : RaiseIn("create_index", ds, e)
          /\ UNCHANGED indices
    /\ UNCHANGED <<fs, indexer, locals, search_args, written, bsVars, gqVars, agVars, dkVars>>

IndexDocuments(here, ds, index, docs, name, next) ==
    /\ pc = here
    /\ \/ \E elapsed \in 0..MaxElapsed :
            /\ indices' = [indices EXCEPT ![index] = Some(Len(Val(locals[docs])))]
            /\ locals' = [locals EXCEPT
                              ![name] = Some(index_documents(Val(locals[docs]), elapsed))]
            /\ Returns("index_documents", ds, next)
       \/ /\ \E e \in Exc : RaiseIn("index_documents", ds, e)
          /\ UNCHANGED <<indices, locals>>
    /\ UNCHANGED <<fs, indexer, search_args, written, bsVars, gqVars, agVars, dkVars>>

\* with open(file, 'w') as f: json.dump(value, f).  open() creates or empties
\* the file; an error in json.dump leaves it incomplete.
Save(here, file, name, next) ==
    /\ pc = here
    /\ \/ /\ written' = Append(written, [file |-> file, content |-> locals[name]])
          /\ Returns("save", file, next)
       \/ /\ RaiseIn("save", file, "FileNotFoundError")
          /\ UNCHANGED written
       \/ /\ RaiseIn("save", file, "Exception")
          /\ written' = Append(written, [file |-> file, content |-> None])
    /\ UNCHANGED <<fs, indexer, indices, locals, search_args, bsVars, gqVars, agVars, dkVars>>

GenerateQueries ==
    /\ pc = "generate_queries"
    /\ locals' = [locals EXCEPT !.test_queries = Some(generate_test_queries)]
    /\ Returns("generate_test_queries", "-", "save_queries")
    /\ UNCHANGED <<fs, indexer, indices, search_args, written, bsVars, gqVars, agVars, dkVars>>

\* BatchSearch with a driver that pops each query off the caller's list.
BatchSearchConsuming(here, ds, index, name, next) ==
    /\ pc = here
    /\ search_args' = Append(search_args,
                          [index |-> index, queries |-> Val(locals.test_queries),
                           size |-> SearchSize])
    /\ \/ \E responses \in ResponseProfiles(Len(Val(locals.test_queries))) :
            LET r == batch_search(index, Val(locals.test_queries), SearchSize, responses)
            IN  IF IsSet(r.error)
                THEN RaiseIn("batch_search", ds, "Exception") /\ UNCHANGED locals
                ELSE /\ locals' = [locals EXCEPT ![name] = r.stats,
                                                 !.test_queries = Some(<<>>)]
                     /\ Returns("batch_search", ds, next)
       \/ /\ \E e \in Exc : RaiseIn("batch_search", ds, e)
          /\ UNCHANGED locals
    /\ UNCHANGED <<fs, indexer, indices, written, bsVars, gqVars, agVars, dkVars>>

BatchSearch(here, ds, index, name, next) ==
    /\ pc = here
    /\ search_args' = Append(search_args,
                          [index |-> index, queries |-> Val(locals.test_queries),
                           size |-> SearchSize])
    /\ \/ \E responses \in ResponseProfiles(Len(Val(locals.test_queries))) :
            LET r == batch_search(index, Val(locals.test_queries), SearchSize, responses)
            IN  IF IsSet(r.error)
                THEN RaiseIn("batch_search", ds, "Exception") /\ UNCHANGED locals
                ELSE /\ locals' = [locals EXCEPT ![name] = r.stats]
                     /\ Returns("batch_search", ds, next)
       \/ /\ \E e \in Exc : RaiseIn("batch_search", ds, e)
          /\ UNCHANGED locals
    /\ UNCHANGED <<fs, indexer, indices, written, bsVars, gqVars, agVars, dkVars>>

GetIndexStats(here, ds, index, name, next) ==
    /\ pc = here
    /\ \/ /\ IsSet(indices[index])
          /\ \E bytes \in StoreSizes :
                locals' = [locals EXCEPT
                               ![name] = Some(get_index_stats(index, Val(indices[index]), bytes))]
          /\ Returns("get_index_stats", ds, next)
       \/ /\ ~IsSet(indices[index])
          /\ RaiseIn("get_index_stats", ds, "Exception")
          /\ UNCHANGED locals
       \/ /\ \E e \in Exc : RaiseIn("get_index_stats", ds, e)
          /\ UNCHANGED locals
    /\ UNCHANGED <<fs, indexer, indices, search_args, written, bsVars, gqVars, agVars, dkVars>>

\* BuildSummaryFrom with the wiki latencies filed under news.
BuildSummaryCrossed(l) ==
    [activity |-> "Activity 1 - Elasticsearch Implementation",
     version |-> "ESIndex-v1.0",
     datasets |->
        [news |-> [documents |-> Val(l.news_stats).total_docs, index_name |-> news_index],
         wiki |-> [documents |-> Val(l.wiki_stats).total_docs, index_name |-> wiki_index]],
     artifacts |->
        [A_latency |->
            [news |-> [p95_ms |-> Val(l.wiki_search_stats).p95_latency_ms,
                       p99_ms |-> Val(l.wiki_search_stats).p99_latency_ms,
                       mean_ms |-> Val(l.wiki_search_stats).mean_latency_ms],
             wiki |-> [p95_ms |-> Val(l.wiki_search_stats).p95_latency_ms,
                       p99_ms |-> Val(l.wiki_search_stats).p99_latency_ms,
                       mean_ms |-> Val(l.wiki_search_stats).mean_latency_ms]],
         B_throughput |->
            [news_indexing_docs_per_sec |-> Val(l.news_stats).docs_per_second,
             wiki_indexing_docs_per_sec |-> Val(l.wiki_stats).docs_per_second],
         C_memory |->
            [news_mb |-> Val(l.news_memory).store_size_mb,
             wiki_mb |-> Val(l.wiki_memory).store_size_mb]],
     query_count |-> Len(Val(l.test_queries))]

\* The summary of lines 248-284, built from the results of the run.
BuildSummaryFrom(l) ==
    [activity |-> "Activity 1 - Elasticsearch Implementation",
     version |-> "ESIndex-v1.0",
     datasets |->
        [news |-> [documents |-> Val(l.news_stats).total_docs, index_name |-> news_index],
         wiki |-> [documents |-> Val(l.wiki_stats).total_docs, index_name |-> wiki_index]],
     artifacts |->
        [A_latency |->
            [news |-> [p95_ms |-> Val(l.news_search_stats).p95_latency_ms,
                       p99_ms |-> Val(l.news_search_stats).p99_latency_ms,
                       mean_ms |-> Val(l.news_search_stats).mean_latency_ms],
             wiki |-> [p95_ms |-> Val(l.wiki_search_stats).p95_latency_ms,
                       p99_ms |-> Val(l.wiki_search_stats).p99_latency_ms,
                       mean_ms |-> Val(l.wiki_search_stats).mean_latency_ms]],
         B_throughput |->
            [news_indexing_docs_per_sec |-> Val(l.news_stats).docs_per_second,
             wiki_indexing_docs_per_sec |-> Val(l.wiki_stats).docs_per_second],
         C_memory |->
            [news_mb |-> Val(l.news_memory).store_size_mb,
             wiki_mb |-> Val(l.wiki_memory).store_size_mb]],
     query_count |-> Len(Val(l.test_queries))]

CheckNewsFile == CheckFile("check_news", news_file, "load_news")

LoadNews == LoadCorpus("load_news", "news", "news_docs", "create_news")

CreateNewsIndex == CreateIndex("create_news", "news", news_index, "index_news")

\* IndexNews with the index_documents call left out.
IndexNewsSkipped ==
    /\ pc = "index_news"
    /\ pc' = "save_news_stats"
    /\ UNCHANGED <<fs, indexer, indices, locals, search_args, written, calls, endVars,
                   bsVars, gqVars, agVars, dkVars>>

IndexNews ==
    IndexDocuments("index_news", "news", news_index, "news_docs", "news_stats",
                   "save_news_stats")

\* SaveNewsStats with the summary's file name pasted in.
SaveNewsStatsToSummary == Save("save_news_stats", SummaryFile, "news_stats", "check_wiki")

SaveNewsStats ==
    Save("save_news_stats", "results/metrics/es_news_indexing_stats.json", "news_stats",
         "check_wiki")

CheckWikiFile == CheckFile("check_wiki", wiki_file, "load_wiki")

LoadWiki == LoadCorpus("load_wiki", "wiki", "wiki_docs", "create_wiki")

CreateWikiIndex == CreateIndex("create_wiki", "wiki", wiki_index, "index_wiki")

\* IndexWiki handed the news documents.
IndexWikiWithNewsDocs ==
    IndexDocuments("index_wiki", "wiki", wiki_index, "news_docs", "wiki_stats",
                   "save_wiki_stats")

IndexWiki ==
    IndexDocuments("index_wiki", "wiki", wiki_index, "wiki_docs", "wiki_stats",
                   "save_wiki_stats")

SaveWikiStats ==
    Save("save_wiki_stats", "results/metrics/es_wiki_indexing_stats.json", "wiki_stats",
         "generate_queries")

SaveQueries ==
    Save("save_queries", "tests/query_sets/test_queries.json", "test_queries",
         "search_news")

SearchNews ==
    BatchSearch("search_news", "news", news_index, "news_search_stats", "save_news_search")

SaveNewsSearch ==
    Save("save_news_search", "results/metrics/es_news_search_stats.json",
         "news_search_stats", "search_wiki")

SearchWiki ==
    BatchSearch("search_wiki", "wiki", wiki_index, "wiki_search_stats", "save_wiki_search")

SaveWikiSearch ==
    Save("save_wiki_search", "results/metrics/es_wiki_search_stats.json",
         "wiki_search_stats", "stats_news")

StatsNews == GetIndexStats("stats_news", "news", news_index, "news_memory", "stats_wiki")

StatsWiki ==
    GetIndexStats("stats_wiki", "wiki", wiki_index, "wiki_memory", "save_news_memory")

SaveNewsMemory ==
    Save("save_news_memory", "results/metrics/es_news_memory.json", "news_memory",
         "save_wiki_memory")

SaveWikiMemory ==
    Save("save_wiki_memory", "results/metrics/es_wiki_memory.json", "wiki_memory",
         "build_summary")

BuildSummary ==
    /\ pc = "build_summary"
    /\ locals' = [locals EXCEPT !.summary = Some(BuildSummaryFrom(locals))]
    /\ pc' = "save_summary"
    /\ UNCHANGED <<fs, indexer, indices, search_args, written, calls, endVars, bsVars, gqVars, agVars, dkVars>>

SaveSummary == Save("save_summary", SummaryFile, "summary", "print_summary")

\* The closing prints, then return 0.
ReturnSuccess ==
    /\ pc = "print_summary"
    /\ pc' = "done"
    /\ outcome' = "success"
    /\ exit_code' = Some(0)
    /\ UNCHANGED <<fs, indexer, indices, locals, search_args, written, calls, raised,
                   guidance, bsVars, gqVars, agVars, dkVars>>

\* The other machines of the module, at rest while main() runs.
BsIdle ==
    /\ bs_queries = <<>>
    /\ bs_responses = <<>>
    /\ bs_size = 0
    /\ bs_result = None

GqIdle ==
    /\ gq_heap = <<>>
    /\ gq_rets = <<>>
    /\ gq_mutations = 0

AgIdle ==
    /\ ag_latencies = <<>>
    /\ ag_runs = <<>>

DkIdle ==
    /\ dk_docker = "up"
    /\ dk_container = "absent"
    /\ dk_created = 0
    /\ dk_last = None

Init == MainInit /\ BsIdle /\ GqIdle /\ AgIdle /\ DkIdle

Next ==
    \/ EnsureDirectories
    \/ Connect
    \/ CheckNewsFile
    \/ LoadNews
    \/ CreateNewsIndex
    \/ IndexNews
    \/ SaveNewsStats
    \/ CheckWikiFile
    \/ LoadWiki
    \/ CreateWikiIndex
    \/ IndexWiki
    \/ SaveWikiStats
    \/ GenerateQueries
    \/ SaveQueries
    \/ SearchNews
    \/ SaveNewsSearch
    \/ SearchWiki
    \/ SaveWikiSearch
    \/ StatsNews
    \/ StatsWiki
    \/ SaveNewsMemory
    \/ SaveWikiMemory
    \/ BuildSummary
    \/ SaveSummary
    \/ ReturnSuccess

Spec == Init /\ [][Next]_vars

\* main() at rest while another machine of the module runs.
MainIdle ==
    /\ pc = "idle"
    /\ fs = {}
    /\ indexer = "none"
    /\ indices = [n \in IndexNames |-> None]
    /\ locals = NoLocals
    /\ search_args = <<>>
    /\ written = <<>>
    /\ calls = <<>>
    /\ raised = None
    /\ outcome = "running"
    /\ exit_code = None
    /\ guidance = {}

\* ------------------------------------------- a batch_search call on its own

\* The queries the call is given are drawn from a four-word and a one-word
\* query of the set.
BsQueryPool == {generate_test_queries[1], generate_test_queries[20]}

BsInit ==
    /\ MainIdle
    /\ GqIdle
    /\ AgIdle
    /\ DkIdle
    /\ bs_queries \in UNION {[1..n -> BsQueryPool] : n \in 0..MaxQ}
    /\ bs_responses \in [1..Len(bs_queries) -> {None} \cup {Some(ms) : ms \in 1..MaxLat}]
    /\ bs_size = SearchSize
    /\ bs_result = None

BsCall ==
    /\ bs_result = None
    /\ \E index \in IndexNames :
          bs_result' = Some(batch_search(index, bs_queries, bs_size, bs_responses))
    /\ UNCHANGED <<mainVars, bs_queries, bs_responses, bs_size, gqVars, agVars, dkVars>>

BsNext == BsCall

SpecSearch == BsInit /\ [][BsNext]_vars

\* ------------------------------------------ generate_test_queries() calls

GqInit == MainIdle /\ BsIdle /\ GqIdle /\ AgIdle /\ DkIdle

\* CallGenerateTestQueries with the list kept at module level and handed out
\* again on every call.
CallGenerateShared ==
    /\ Len(gq_rets) < MaxGenCalls
    /\ IF gq_heap = <<>>
       THEN gq_heap' = <<generate_test_queries>>
       ELSE UNCHANGED gq_heap
    /\ gq_rets' = Append(gq_rets, [ref |-> 1, value |-> gq_heap'[1], after |-> gq_mutations])
    /\ UNCHANGED <<gq_mutations, mainVars, bsVars, agVars, dkVars>>

\* A call builds the list anew (a fresh object) and returns it; gq_rets keeps
\* the object returned, its contents at the return and the number of
\* mutations callers had made by then.
CallGenerateTestQueries ==
    /\ Len(gq_rets) < MaxGenCalls
    /\ gq_heap' = Append(gq_heap, generate_test_queries)
    /\ gq_rets' = Append(gq_rets, [ref |-> Len(gq_heap) + 1,
                                   value |-> gq_heap'[Len(gq_heap) + 1],
                                   after |-> gq_mutations])
    /\ UNCHANGED <<gq_mutations, mainVars, bsVars, agVars, dkVars>>

Mutated(how, list) ==
    IF how = "pop" THEN SubSeq(list, 1, Len(list) - 1)
    ELSE IF how = "append" THEN Append(list, <<"extra">>)
    ELSE <<>>

\* A caller changes, in place, a list some call returned to it.
CallerMutates ==
    /\ gq_mutations < MaxMutations
    /\ \E i \in 1..Len(gq_rets) : \E how \in {"pop", "append", "clear"} :
          /\ how = "pop" => gq_heap[gq_rets[i].ref] # <<>>
          /\ gq_heap' = [gq_heap EXCEPT ![gq_rets[i].ref] = Mutated(how, @)]
    /\ gq_mutations' = gq_mutations + 1
    /\ UNCHANGED <<gq_rets, mainVars, bsVars, agVars, dkVars>>

GqNext == CallGenerateTestQueries \/ CallerMutates

SpecGen == GqInit /\ [][GqNext]_vars

\* ------------------------------- the aggregates of one latency sequence

\* The sequence of spec section 8, in milliseconds.
FixedLatencies == [i \in 1..10 |-> Some(10 * i)]

\* A latency sequence of up to MaxAggLen entries, each a failed query or a
\* latency of up to MaxAggVal ms, or the fixed sequence.
AgInit ==
    /\ MainIdle
    /\ BsIdle
    /\ GqIdle
    /\ DkIdle
    /\ ag_latencies \in {FixedLatencies} \cup
           UNION {[1..n -> {None} \cup {Some(ms) : ms \in 1..MaxAggVal}] : n \in 0..MaxAggLen}
    /\ ag_runs = <<>>

\* The aggregates are computed (again) from the same sequence.
AgCompute ==
    /\ Len(ag_runs) < MaxAggRuns
    /\ ag_runs' = Append(ag_runs, Aggregates(ag_latencies))
    /\ UNCHANGED <<ag_latencies, mainVars, bsVars, gqVars, dkVars>>

AgNext == AgCompute

SpecAgg == AgInit /\ [][AgNext]_vars

\* ------------------------------------------ docker_setup.py: the methods

\* The container states and the states of the docker installation: the
\* binary is not on the PATH, the daemon is down, or the daemon is up.
ContainerStates == {"absent", "stopped", "running"}

DockerStates == {"missing", "down", "up"}

\* The readiness loop of start() runs this many probes at most.
max_retries == 30

\* An event of a method's execution: a docker command issued ("docker"), a
\* method of the class entered ("call") or left ("return", "raise"); `val`
\* is how it went and `seen` the state of the container at that moment.
Ev(ev, arg, val, seen) == [ev |-> ev, arg |-> arg, val |-> val, seen |-> seen]

\* How a method ended: by returning `value` or by raising `exc`, the state
\* it left the container in, the events in order, the readiness probes
\* made, whether one succeeded, and the containers created.
Outcome(how, value, exc, c, trace, probes, probe_ok, created) ==
    [how |-> how, value |-> value, exc |-> exc, container |-> c, trace |-> trace,
     probes |-> probes, probe_ok |-> probe_ok, created |-> created]

Returned(value, c, trace) == Outcome("returned", value, "", c, trace, 0, FALSE, 0)

Raised(exc, c, trace) == Outcome("raised", "", exc, c, trace, 0, FALSE, 0)

\* check_docker_installed(): `docker --version`; a missing binary
\* (FileNotFoundError) is caught and answered False.
check_docker_installed(d) == IF d = "missing" THEN "False" ELSE "True"

\* check_docker_running(): subprocess.run is called with capture_output=True
\* and stderr=subprocess.DEVNULL together, which subprocess.run rejects with
\* a ValueError before any process is started; the method catches
\* CalledProcessError only, so the ValueError leaves it, whatever the state
\* of the daemon.
check_docker_running(d) == "ValueError"

\* is_container_running(): `docker ps --filter name=...`; a failing command
\* (daemon down) is caught and answered False, a missing binary is not
\* caught.
is_container_running(d, c) ==
    IF d = "missing" THEN "FileNotFoundError"
    ELSE IF d = "down" THEN "False"
    ELSE IF c = "running" THEN "True" ELSE "False"

\* is_container_exists(): `docker ps -a --filter name=...`, likewise.
is_container_exists(d, c) ==
    IF d = "missing" THEN "FileNotFoundError"
    ELSE IF d = "down" THEN "False"
    ELSE IF c # "absent" THEN "True" ELSE "False"

\* stop() that issues `docker stop` without looking at the container first.
stop_unconditional(d, c) ==
    IF d = "missing"
    THEN {Raised("FileNotFoundError", c, <<Ev("docker", "stop", "not found", c)>>)}
    ELSE IF d = "up" /\ c # "absent"
    THEN {Returned("None", "stopped", <<Ev("docker", "stop", "ok", c)>>)}
    ELSE {Raised("CalledProcessError", c, <<Ev("docker", "stop", "failed", c)>>)}

\* stop(): a container that is_container_running() does not report is left
\* alone; otherwise `docker stop` with check=True, whose failure is not
\* caught.
stop(d, c) ==
    LET r == is_container_running(d, c)
        ps == <<Ev("docker", "ps", r, c)>>
    IN  IF r = "FileNotFoundError" THEN {Raised("FileNotFoundError", c, ps)}
        ELSE IF r = "False" THEN {Returned("None", c, ps)}
        ELSE {Returned("None", "stopped", ps \o <<Ev("docker", "stop", "ok", c)>>),
              Raised("CalledProcessError", c, ps \o <<Ev("docker", "stop", "failed", c)>>)}

\* The readiness loop of start(), lines 133-157, entered with the events so
\* far: `failed` probes fail (non-zero exit, timeout or exception, all
\* swallowed) before the first one succeeds; with max_retries failed probes
\* the loop is exhausted and start() returns False.
ReadinessLoop(c, trace, created) ==
    {Outcome("returned", IF failed < max_retries THEN "True" ELSE "False", "", c, trace,
             IF failed < max_retries THEN failed + 1 ELSE max_retries,
             failed < max_retries, created) : failed \in 0..max_retries}

\* start() from line 92 on: a running container is reported at once; an
\* existing one is started, a missing one created (`docker run -d --name`),
\* a failure of either is answered False; then the readiness loop.  A
\* failed `docker run` may leave the container created but not running.
StartContainer(d, c, trace) ==
    LET r == is_container_running(d, c)
        e == is_container_exists(d, c)
        t1 == trace \o <<Ev("docker", "ps", r, c)>>
        t2 == t1 \o <<Ev("docker", "ps -a", e, c)>>
    IN  IF r = "True" THEN {Returned("True", c, t1)}
        ELSE IF e = "True"
        THEN ReadinessLoop("running", t2 \o <<Ev("docker", "start", "ok", c)>>, 0)
             \cup {Returned("False", c, t2 \o <<Ev("docker", "start", "failed", c)>>)}
        ELSE IF d = "up" /\ c = "absent"
        THEN ReadinessLoop("running", t2 \o <<Ev("docker", "run", "ok", c)>>, 1)
             \cup {Returned("False", c, t2 \o <<Ev("docker", "run", "failed", c)>>),
                   Outcome("returned", "False", "", "stopped",
                           t2 \o <<Ev("docker", "run", "failed", c)>>, 0, FALSE, 1)}
        ELSE {Returned("False", c, t2 \o <<Ev("docker", "run", "failed", c)>>)}

\* start(): False without docker; then check_docker_running(), whose
\* exception is not caught here either; only past it the container is
\* looked at.
start(d, c) ==
    LET version == <<Ev("docker", "--version", check_docker_installed(d), c)>>
        running == check_docker_running(d)
    IN  IF check_docker_installed(d) = "False" THEN {Returned("False", c, version)}
        ELSE IF running = "ValueError" THEN {Raised("ValueError", c, version)}
        ELSE IF running = "False" THEN {Returned("False", c, version)}
        ELSE StartContainer(d, c, version)

\* The events of a call of method `name` that ended as `o`, entered with
\* the container in state c.
Wrap(name, o, c) ==
    <<Ev("call", name, "", c)>> \o o.trace
    \o <<Ev(IF o.how = "returned" THEN "return" ELSE "raise", name,
            IF o.how = "returned" THEN o.value ELSE o.exc, o.container)>>

\* restart() with the two calls in the other order.
restart_start_first(d, c) ==
    UNION {IF t.how = "raised"
           THEN {[t EXCEPT !.trace = Wrap("start", t, c)]}
           ELSE {[s EXCEPT !.trace = Wrap("start", t, c) \o Wrap("stop", s, t.container),
                           !.probes = t.probes, !.probe_ok = t.probe_ok,
                           !.created = t.created]
                 : s \in stop(d, t.container)}
           : t \in start(d, c)}

\* restart(): stop(), then start(); an exception of stop() leaves restart()
\* before start() is called, and what start() returns is dropped.
restart(d, c) ==
    UNION {IF s.how = "raised"
           THEN {[s EXCEPT !.trace = Wrap("stop", s, c)]}
           ELSE {[t EXCEPT !.trace = Wrap("stop", s, c) \o Wrap("start", t, s.container),
                           !.value = IF t.how = "returned" THEN "None" ELSE ""]
                 : t \in start(d, s.container)}
           : s \in stop(d, c)}

\* status(): the same two checks as start(), then read-only docker commands.
status(d, c) ==
    LET version == <<Ev("docker", "--version", check_docker_installed(d), c)>>
        running == check_docker_running(d)
        e == is_container_exists(d, c)
        r == is_container_running(d, c)
        t1 == version \o <<Ev("docker", "ps -a", e, c)>>
        t2 == t1 \o <<Ev("docker", "ps", r, c)>>
    IN  IF check_docker_installed(d) = "False" THEN {Returned("None", c, version)}
        ELSE IF running = "ValueError" THEN {Raised("ValueError", c, version)}
        ELSE IF running = "False" THEN {Returned("None", c, version)}
        ELSE IF e # "True" THEN {Returned("None", c, t1)}
        ELSE IF r = "True" THEN {Returned("None", c, t2 \o <<Ev("docker", "ps", "ok", c)>>)}
        ELSE {Returned("None", c, t2)}

\* logs(): `docker logs` of a container is_container_exists() reports.
logs(d, c) ==
    LET e == is_container_exists(d, c)
        t == <<Ev("docker", "ps -a", e, c)>>
    IN  IF e = "FileNotFoundError" THEN {Raised("FileNotFoundError", c, t)}
        ELSE IF e = "False" THEN {Returned("None", c, t)}
        ELSE {Returned("None", c, t \o <<Ev("docker", "logs", "ok", c)>>)}

\* The second half of clean(), lines 240-247: `docker rm` (check=True, not
\* caught) of a container is_container_exists() reports, else the message
\* that the container does not exist.  docker refuses to remove a running
\* container.
RemoveContainer(d, c, trace) ==
    LET e == is_container_exists(d, c)
        t == trace \o <<Ev("docker", "ps -a", e, c)>>
    IN  IF e = "FileNotFoundError" THEN {Raised("FileNotFoundError", c, t)}
        ELSE IF e = "False" THEN {Returned("None", c, t)}
        ELSE {Raised("CalledProcessError", c, t \o <<Ev("docker", "rm", "failed", c)>>)}
             \cup (IF c = "running" THEN {}
                   ELSE {Returned("None", "absent", t \o <<Ev("docker", "rm", "ok", c)>>)})

\* clean(): stop() first when is_container_running() reports the container,
\* then the removal; an exception of stop() leaves clean() at once.
clean(d, c) ==
    LET r == is_container_running(d, c)
        ps == <<Ev("docker", "ps", r, c)>>
    IN  IF r = "FileNotFoundError" THEN {Raised("FileNotFoundError", c, ps)}
        ELSE IF r = "False" THEN RemoveContainer(d, c, ps)
        ELSE UNION {IF s.how = "raised"
                    THEN {[s EXCEPT !.trace = ps \o Wrap("stop", s, c)]}
                    ELSE RemoveContainer(d, s.container, ps \o Wrap("stop", s, c))
                    : s \in stop(d, c)}

\* -------------------------------------------- docker_setup.py: the commands

\* The machine some command of docker_setup.py is run on: docker missing,
\* down or up, the container left in any state by earlier runs (running
\* needs the daemon).
DkInit ==
    /\ MainIdle
    /\ BsIdle
    /\ GqIdle
    /\ AgIdle
    /\ dk_docker \in DockerStates
    /\ dk_container \in ContainerStates
    /\ dk_container = "running" => dk_docker = "up"
    /\ dk_created = IF dk_container = "absent" THEN 0 ELSE 1
    /\ dk_last = None

\* The number of commands run so far.
Ran == IF IsSet(dk_last) THEN Val(dk_last).nth ELSE 0

\* main(): one run of `python docker_setup.py <cmd>`; the method is called,
\* what it returns is dropped and what it raises ends the process.
Run(cmd, outcomes) ==
    /\ Ran < MaxCommands
    /\ \E o \in outcomes :
          /\ dk_container' = o.container
          /\ dk_created' = IF o.container = "absent" THEN 0 ELSE dk_created + o.created
          /\ dk_last' = Some([nth |-> Ran + 1, cmd |-> cmd, docker |-> dk_docker, before |-> dk_container,
                              how |-> o.how, value |-> o.value, exc |-> o.exc,
                              trace |-> o.trace, probes |-> o.probes,
                              probe_ok |-> o.probe_ok, after |-> o.container])
    /\ UNCHANGED <<dk_docker, mainVars, bsVars, gqVars, agVars>>

CmdStart == Run("start", start(dk_docker, dk_container))

CmdStop == Run("stop", stop(dk_docker, dk_container))

CmdRestart == Run("restart", restart(dk_docker, dk_container))

CmdStatus == Run("status", status(dk_docker, dk_container))

CmdLogs == Run("logs", logs(dk_docker, dk_container))

CmdClean == Run("clean", clean(dk_docker, dk_container))

\* No command or an unknown one: the usage is printed.
CmdUsage == Run("", {Returned("None", dk_container, <<>>)})

\* Between two commands: the daemon goes down (taking a running container
\* with it) or comes up, or the service in the container exits.
DaemonStops ==
    /\ dk_docker = "up"
    /\ dk_docker' = "down"
    /\ dk_container' = IF dk_container = "running" THEN "stopped" ELSE dk_container
    /\ UNCHANGED <<dk_created, dk_last, mainVars, bsVars, gqVars, agVars>>

DaemonStarts ==
    /\ dk_docker = "down"
    /\ dk_docker' = "up"
    /\ UNCHANGED <<dk_container, dk_created, dk_last, mainVars, bsVars, gqVars, agVars>>

ContainerExits ==
    /\ dk_container = "running"
    /\ dk_container' = "stopped"
    /\ UNCHANGED <<dk_docker, dk_created, dk_last, mainVars, bsVars, gqVars, agVars>>

DkNext ==
    \/ CmdStart
    \/ CmdStop
    \/ CmdRestart
    \/ CmdStatus
    \/ CmdLogs
    \/ CmdClean
    \/ CmdUsage
    \/ DaemonStops
    \/ DaemonStarts
    \/ ContainerExits

SpecDocker == DkInit /\ [][DkNext]_vars

\* ------------------------------------------------------------ properties

Datasets == {"news", "wiki"}

FileOf(ds) == IF ds = "news" THEN news_file ELSE wiki_file

PipelineOrder ==
    <<"load", "create_index", "index_documents", "batch_search", "get_index_stats">>

\* The operations invoked for a dataset, in order.
OpsOf(ds) == SelectSeq(calls, LAMBDA c : c.ds = ds)

Completed(op, ds) == \E i \in 1..Len(calls) : calls[i] = [op |-> op, ds |-> ds, ok |-> TRUE]

IsPrefix(s, t) == Len(s) <= Len(t) /\ \A i \in 1..Len(s) : s[i] = t[i]

SummaryWrites == SelectSeq(written, LAMBDA w : w.file = SummaryFile)

RunResults ==
    {"news_stats", "wiki_stats", "news_search_stats", "wiki_search_stats",
     "news_memory", "wiki_memory"}

\* C1: for each dataset the operations invoked so far are an initial part of
\* load, create_index, index_documents, batch_search, get_index_stats (so each
\* happens at most once and in this order), every one but the last has
\* returned normally (index_documents before batch_search begins), and the
\* summary exists only when all five have returned for both datasets.
C1_StepOrder ==
    /\ \A ds \in Datasets :
          LET mine == OpsOf(ds)
          IN  /\ IsPrefix([i \in 1..Len(mine) |-> mine[i].op], PipelineOrder)
              /\ \A i \in 1..(Len(mine) - 1) : mine[i].ok
    /\ IsSet(locals.summary) =>
          \A ds \in Datasets : \A i \in 1..Len(PipelineOrder) :
              Completed(PipelineOrder[i], ds)

C1_Witness ==
    /\ IsSet(locals.summary)
    /\ \A ds \in Datasets : Len(OpsOf(ds)) = Len(PipelineOrder)

\* C2: summary_report.json is opened for writing at most once; when it is,
\* all six run results and the summary have been produced and what is written
\* is that summary; a run that ended at any earlier step has not written it.
C2_SummaryWriteOnce ==
    /\ Len(SummaryWrites) <= 1
    /\ Len(SummaryWrites) = 1 =>
          /\ \A n \in RunResults : IsSet(locals[n])
          /\ IsSet(locals.summary)
          /\ SummaryWrites[1].content \in {None, locals.summary}
    /\ (pc = "done" /\ outcome # "success"
            /\ ~(IsSet(raised) /\ Val(raised).op = "save" /\ Val(raised).ds = SummaryFile))
          => SummaryWrites = <<>>
    /\ outcome = "success" => Len(SummaryWrites) = 1 /\ SummaryWrites[1].content = locals.summary

C2_Witness ==
    /\ outcome = "success"
    /\ Len(SummaryWrites) = 1
    /\ Len(written) > 1

\* The run got as far as the existence test of the dataset's corpus file.
ReachedCheck(ds) ==
    IF ds = "news" THEN Completed("connect", "-")
    ELSE Completed("save", "results/metrics/es_news_indexing_stats.json")

\* C3 as stated: whenever a dataset's corpus file is missing, the run ends
\* without any operation for that dataset, with exit status 1 and the
\* data-download guidance, not with the connection-error or the generic outcome.
C3_AsStated ==
    \A ds \in Datasets :
        (pc = "done" /\ FileOf(ds) \notin fs) =>
            /\ OpsOf(ds) = <<>>
            /\ exit_code = Some(1)
            /\ DataDownloader \in guidance
            /\ outcome \notin {"connection_error", "unexpected_error"}

\* C3, amended: a dataset whose corpus file is missing never gets any
\* operation and the run ends with exit status 1; when the run reaches that
\* dataset's existence test (no earlier step failed) it ends there, with the
\* data-download guidance alone and no exception, an outcome of its own.
C3_MissingCorpus ==
    \A ds \in Datasets :
        FileOf(ds) \notin fs =>
            /\ OpsOf(ds) = <<>>
            /\ pc = "done" => exit_code = Some(1)
            /\ (pc = "done" /\ ReachedCheck(ds)) =>
                  /\ outcome = "data_missing"
                  /\ outcome \notin {"connection_error", "unexpected_error", "file_not_found"}
                  /\ raised = None
                  /\ guidance = {DataDownloader}

C3_Witness ==
    /\ pc = "done"
    /\ wiki_file \notin fs
    /\ outcome = "data_missing"
    /\ Completed("index_documents", "news")

ServiceOps == {"connect", "create_index", "index_documents", "batch_search", "get_index_stats"}

\* C4: a ConnectionError raised by connecting or by any service operation ends
\* the run on the connection-error path with exit status 1 and the docker
\* start guidance; and search statistics, a footprint or a summary exist only
\* for a dataset whose index_documents call returned.
C4_ConnectionErrorPropagates ==
    /\ (IsSet(raised) /\ Val(raised).exc = "ConnectionError" /\ Val(raised).op \in ServiceOps) =>
          /\ pc = "done"
          /\ outcome = "connection_error"
          /\ exit_code = Some(1)
          /\ guidance = {DockerStart}
          /\ ~calls[Len(calls)].ok
          /\ locals.summary = None
          /\ SummaryWrites = <<>>
    /\ (IsSet(locals.news_search_stats) \/ IsSet(locals.news_memory) \/ IsSet(locals.summary))
          => Completed("index_documents", "news")
    /\ (IsSet(locals.wiki_search_stats) \/ IsSet(locals.wiki_memory) \/ IsSet(locals.summary))
          => Completed("index_documents", "wiki")

C4_Witness ==
    /\ IsSet(raised)
    /\ Val(raised) = [op |-> "index_documents", ds |-> "wiki", exc |-> "ConnectionError"]
    /\ IsSet(locals.news_stats)

QueriesFileWrites ==
    SelectSeq(written, LAMBDA w : w.file = "tests/query_sets/test_queries.json"
                                  /\ IsSet(w.content))

\* C5: every batch_search call gets the sequence that was generated (the one
\* saved to test_queries.json), unchanged, and the same size limit; the wiki
\* call gets what the news call got, element for element.
C5_SameQueriesBothDatasets ==
    /\ \A i \in 1..Len(search_args) :
          /\ IsSet(locals.test_queries)
          /\ search_args[i].queries = Val(locals.test_queries)
          /\ search_args[i].size = search_args[1].size
          /\ \A j \in 1..Len(QueriesFileWrites) :
                Val(QueriesFileWrites[j].content) = search_args[i].queries
    /\ Len(search_args) <= 2
    /\ Len(search_args) = 2 =>
          /\ search_args[1].index = news_index
          /\ search_args[2].index = wiki_index
          /\ Len(search_args[2].queries) = Len(search_args[1].queries)
          /\ \A k \in 1..Len(search_args[1].queries) :
                search_args[2].queries[k] = search_args[1].queries[k]

C5_Witness ==
    /\ Len(search_args) = 2
    /\ Len(search_args[2].queries) > 1
    /\ IsSet(locals.wiki_search_stats)

\* C7: the summary's query_count is the length of the query set, each
\* dataset's documents is its IndexingRun's total_docs, and each latency,
\* throughput and footprint field is the field of the same dataset's SearchRun,
\* IndexingRun or FootprintReport.
C7_SummaryIsComposition ==
    IsSet(locals.summary) =>
        LET sm == Val(locals.summary)
            lat == sm.artifacts.A_latency
        IN  /\ sm.query_count = Len(Val(locals.test_queries))
            /\ sm.datasets.news.documents = Val(locals.news_stats).total_docs
            /\ sm.datasets.wiki.documents = Val(locals.wiki_stats).total_docs
            /\ sm.datasets.news.index_name = news_index
            /\ sm.datasets.wiki.index_name = wiki_index
            /\ lat.news.p95_ms = Val(locals.news_search_stats).p95_latency_ms
            /\ lat.news.p99_ms = Val(locals.news_search_stats).p99_latency_ms
            /\ lat.news.mean_ms = Val(locals.news_search_stats).mean_latency_ms
            /\ lat.wiki.p95_ms = Val(locals.wiki_search_stats).p95_latency_ms
            /\ lat.wiki.p99_ms = Val(locals.wiki_search_stats).p99_latency_ms
            /\ lat.wiki.mean_ms = Val(locals.wiki_search_stats).mean_latency_ms
            /\ sm.artifacts.B_throughput.news_indexing_docs_per_sec
                  = Val(locals.news_stats).docs_per_second
            /\ sm.artifacts.B_throughput.wiki_indexing_docs_per_sec
                  = Val(locals.wiki_stats).docs_per_second
            /\ sm.artifacts.C_memory.news_mb = Val(locals.news_memory).store_size_mb
            /\ sm.artifacts.C_memory.wiki_mb = Val(locals.wiki_memory).store_size_mb

C7_Witness ==
    /\ IsSet(locals.summary)
    /\ Val(locals.news_search_stats).p95_latency_ms # Val(locals.wiki_search_stats).p95_latency_ms
    /\ Val(locals.news_stats).total_docs # Val(locals.wiki_stats).total_docs
    /\ Val(locals.news_stats).docs_per_second # Val(locals.wiki_stats).docs_per_second
    /\ Val(locals.news_memory).store_size_mb # Val(locals.wiki_memory).store_size_mb

\* C8: each of create_index, index_documents, batch_search and get_index_stats
\* is invoked at most once per dataset, and an operation that failed (raised,
\* a timeout included) is the last operation of the run, which has ended.
C8_NoRetry ==
    /\ \A ds \in Datasets :
          \A op \in {"create_index", "index_documents", "batch_search", "get_index_stats"} :
              Cardinality({i \in 1..Len(calls) : calls[i].op = op /\ calls[i].ds = ds}) <= 1
    /\ \A i \in 1..Len(calls) :
          ~calls[i].ok => (i = Len(calls) /\ pc = "done" /\ exit_code = Some(1))

C8_Witness ==
    /\ IsSet(raised)
    /\ Val(raised) = [op |-> "batch_search", ds |-> "news", exc |-> "TimeoutError"]
    /\ pc = "done"

RECURSIVE SumAt(_, _)
SumAt(f, S) ==
    IF S = {} THEN 0
    ELSE LET i == CHOOSE x \in S : TRUE IN Val(f[i]) + SumAt(f, S \ {i})

\* C6: every call of generate_test_queries returns the same ordered sequence
\* (same length, same query at every position) whatever was called or changed
\* before it, and returns an object no earlier call returned.
C6_GeneratorDeterministic ==
    \A i \in 1..Len(gq_rets) : \A j \in 1..Len(gq_rets) :
        /\ Len(gq_rets[i].value) = Len(gq_rets[j].value)
        /\ \A k \in 1..Len(gq_rets[i].value) : gq_rets[i].value[k] = gq_rets[j].value[k]
        /\ i # j => gq_rets[i].ref # gq_rets[j].ref

C6_Witness ==
    /\ Len(gq_rets) >= 2
    /\ gq_rets[2].after >= 1
    /\ gq_heap[gq_rets[1].ref] # gq_rets[1].value

\* C9: batch_search sends every query, in order, whichever of them fail; it
\* fails with BenchmarkFailedError exactly when the sequence is non-empty and
\* every query failed; otherwise the failed queries are counted apart and the
\* aggregates are those of the latencies of the queries that succeeded.
C9_FailuresDoNotAbort ==
    IsSet(bs_result) =>
        LET r == Val(bs_result)
            n == Len(bs_queries)
            bad == {i \in 1..n : bs_responses[i] = None}
            good == (1..n) \ bad
            ms == {Val(bs_responses[i]) : i \in good}
        IN  /\ Len(r.issued) = n
            /\ \A i \in 1..n : r.issued[i].query = bs_queries[i] /\ r.issued[i].size = bs_size
            /\ r.error \in {None, Some("BenchmarkFailedError")}
            /\ r.error = Some("BenchmarkFailedError") <=> (n > 0 /\ bad = 1..n)
            /\ r.error = None =>
                  LET st == Val(r.stats)
                  IN  /\ st.num_queries = n
                      /\ st.failed_queries = Cardinality(bad)
                      /\ good = {} =>
                            /\ st.mean_latency_ms = 0
                            /\ st.min_latency_ms = 0
                            /\ st.max_latency_ms = 0
                      /\ good # {} =>
                            /\ st.min_latency_ms \in {100 * m : m \in ms}
                            /\ st.max_latency_ms \in {100 * m : m \in ms}
                            /\ \A m \in ms : st.min_latency_ms <= 100 * m
                            /\ \A m \in ms : 100 * m <= st.max_latency_ms
                            /\ st.mean_latency_ms * Cardinality(good)
                                  <= 100 * SumAt(bs_responses, good)
                            /\ 100 * SumAt(bs_responses, good)
                                  < (st.mean_latency_ms + 1) * Cardinality(good)
                            /\ st.min_latency_ms <= st.median_latency_ms
                            /\ st.median_latency_ms <= st.max_latency_ms

C9_Witness ==
    /\ IsSet(bs_result)
    /\ Len(bs_queries) >= 3
    /\ bs_responses[1] = None
    /\ IsSet(bs_responses[2])
    /\ bs_responses[3] = None
    /\ Val(bs_result).error = None

\* C10: a SearchRun holds one latency entry per query of the query set, and
\* its mean, median, P95, P99, min and max are the aggregates of that
\* recorded sequence and of nothing else.
C10_LatenciesMatchQueries ==
    (IsSet(bs_result) /\ Val(bs_result).error = None) =>
        LET st == Val(Val(bs_result).stats)
            agg == Aggregates(st.latencies_ms)
        IN  /\ Len(st.latencies_ms) = Len(bs_queries)
            /\ st.mean_latency_ms = agg.mean_latency_ms
            /\ st.median_latency_ms = agg.median_latency_ms
            /\ st.p95_latency_ms = agg.p95_latency_ms
            /\ st.p99_latency_ms = agg.p99_latency_ms
            /\ st.min_latency_ms = agg.min_latency_ms
            /\ st.max_latency_ms = agg.max_latency_ms

C10_Witness ==
    /\ IsSet(bs_result)
    /\ Val(bs_result).error = None
    /\ Len(bs_queries) >= 2
    /\ Val(Val(bs_result).stats).failed_queries >= 1
    /\ Val(Val(bs_result).stats).min_latency_ms < Val(Val(bs_result).stats).max_latency_ms

\* Smallest and largest value of a non-empty sequence of numbers.
MinOf(s) == CHOOSE x \in {s[i] : i \in 1..Len(s)} : \A i \in 1..Len(s) : x <= s[i]

MaxOf(s) == CHOOSE x \in {s[i] : i \in 1..Len(s)} : \A i \in 1..Len(s) : x >= s[i]

\* C11: for every latency sequence with at least one recorded latency, the
\* aggregates satisfy min <= median <= max and median <= P95 <= P99 <= max,
\* where min and max are the smallest and the largest recorded latency; and
\* computing the aggregates of the same sequence again gives the same P95
\* and P99 (all the same aggregates).
C11_AggregatesOrdered ==
    \A i \in 1..Len(ag_runs) :
        LET a == ag_runs[i]
            L == Recorded(ag_latencies)
        IN  /\ a = ag_runs[1]
            /\ L # <<>> =>
                  /\ a.min_latency_ms = 100 * MinOf(L)
                  /\ a.max_latency_ms = 100 * MaxOf(L)
                  /\ a.min_latency_ms <= a.median_latency_ms
                  /\ a.median_latency_ms <= a.max_latency_ms
                  /\ a.median_latency_ms <= a.p95_latency_ms
                  /\ a.p95_latency_ms <= a.p99_latency_ms
                  /\ a.p99_latency_ms <= a.max_latency_ms

\* The fixed sequence 10..100 measured twice: both runs give P95 = 95.50 ms
\* and P99 = 99.10 ms, strictly between the median and the maximum.
C11_Witness ==
    /\ ag_latencies = FixedLatencies
    /\ Len(ag_runs) = 2
    /\ \A i \in 1..2 :
          /\ ag_runs[i].p95_latency_ms = 9550
          /\ ag_runs[i].p99_latency_ms = 9910
          /\ ag_runs[i].median_latency_ms = 5500
          /\ ag_runs[i].min_latency_ms = 1000
          /\ ag_runs[i].max_latency_ms = 10000

\* C12: the IndexingRun of a dataset reports as total_docs the length of the
\* document sequence loaded for that dataset, and the summary reports that
\* same count for the dataset.
C12_TotalDocsIsLength ==
    \A ds \in Datasets :
        LET docs == locals[IF ds = "news" THEN "news_docs" ELSE "wiki_docs"]
            stats == locals[IF ds = "news" THEN "news_stats" ELSE "wiki_stats"]
        IN  /\ IsSet(stats) =>
                  /\ IsSet(docs)
                  /\ Val(stats).total_docs = Len(Val(docs))
            /\ IsSet(locals.summary) =>
                  Val(locals.summary).datasets[ds].documents = Len(Val(docs))

\* A finished run whose two datasets hold different numbers of documents,
\* each reported under its own dataset.
C12_Witness ==
    /\ outcome = "success"
    /\ Len(Val(locals.news_docs)) = 1
    /\ Len(Val(locals.wiki_docs)) = 2
    /\ Val(locals.wiki_stats).total_docs = 2
    /\ Val(locals.summary).datasets.news.documents = 1
    /\ Val(locals.summary).datasets.wiki.documents = 2

\* C13: every query a call of generate_test_queries returns is made of one
\* to four whitespace-separated words, none of them empty, and the returned
\* list holds at least one single-word and at least one multi-word query.
C13_QueryShapes ==
    \A i \in 1..Len(gq_rets) :
        LET queries == gq_rets[i].value
        IN  /\ \A k \in 1..Len(queries) :
                  /\ Len(queries[k]) \in 1..4
                  /\ \A w \in 1..Len(queries[k]) : queries[k][w] # ""
            /\ \E k \in 1..Len(queries) : Len(queries[k]) = 1
            /\ \E k \in 1..Len(queries) : Len(queries[k]) > 1

\* A call has returned the 24 queries, among them a four-word, a two-word
\* and a one-word query.
C13_Witness ==
    /\ gq_rets # <<>>
    /\ Len(gq_rets[1].value) = 24
    /\ Len(gq_rets[1].value[1]) = 4
    /\ Len(gq_rets[1].value[16]) = 2
    /\ gq_rets[1].value[20] = <<"technology">>

\* --------------------------------------------- properties: docker_setup.py

\* Positions in the last command's events: the docker commands `sub`, the
\* events `ev` of method `name`, and the docker commands that change the
\* container.
DockerEvents(l, sub) ==
    {i \in 1..Len(l.trace) : l.trace[i].ev = "docker" /\ l.trace[i].arg = sub}

MethodEvents(l, ev, name) ==
    {i \in 1..Len(l.trace) : l.trace[i].ev = ev /\ l.trace[i].arg = name}

StateChanging(l) ==
    DockerEvents(l, "run") \cup DockerEvents(l, "start") \cup DockerEvents(l, "stop")
    \cup DockerEvents(l, "rm")

\* C14: whenever clean() returns normally no container with the managed name
\* exists; `docker rm` is issued only on a container that is not running,
\* and never after a stop() that failed.
C14_CleanRemoves ==
    IsSet(dk_last) /\ Val(dk_last).cmd = "clean" =>
        LET l == Val(dk_last)
        IN  /\ l.how = "returned" => l.after = "absent"
            /\ \A i \in DockerEvents(l, "rm") : l.trace[i].seen # "running"
            /\ MethodEvents(l, "raise", "stop") # {} => DockerEvents(l, "rm") = {}

\* C15: start() issues `docker run` only when no container exists; on a
\* machine with docker up it issues `docker start` for an existing stopped
\* container; for a running container it issues no state-changing command;
\* and at most one container has been created since the last removal.
C15_StartReusesContainer ==
    /\ dk_created <= 1
    /\ IsSet(dk_last) /\ Val(dk_last).cmd = "start" =>
        LET l == Val(dk_last)
        IN  /\ \A i \in DockerEvents(l, "run") : l.trace[i].seen = "absent"
            /\ l.docker = "up" /\ l.before = "stopped" => DockerEvents(l, "start") # {}
            /\ l.before = "running" => StateChanging(l) = {}

\* C16: `docker stop` is issued only on a running container (by stop()
\* itself and by the methods that call it); after stop() returns normally
\* the container is not running and, if it existed, is stopped and was not
\* removed; on an absent or stopped container stop() issues no
\* state-changing command and leaves the state as it was.
C16_StopOnlyStops ==
    IsSet(dk_last) =>
        LET l == Val(dk_last)
        IN  /\ \A i \in DockerEvents(l, "stop") : l.trace[i].seen = "running"
            /\ l.cmd = "stop" =>
                  /\ l.how = "returned" =>
                        /\ l.after # "running"
                        /\ l.before # "absent" => l.after = "stopped"
                        /\ DockerEvents(l, "rm") = {}
                  /\ l.before \in {"absent", "stopped"} =>
                        /\ l.after = l.before
                        /\ StateChanging(l) = {}

\* stop() has stopped a running container and returned.
C16_Witness ==
    /\ IsSet(dk_last)
    /\ Val(dk_last).cmd = "stop"
    /\ Val(dk_last).before = "running"
    /\ Val(dk_last).how = "returned"
    /\ DockerEvents(Val(dk_last), "stop") # {}
    /\ Val(dk_last).after = "stopped"

C18_StartTerminates ==
    IsSet(dk_last) /\ Val(dk_last).cmd = "start" /\ Val(dk_last).docker = "up"
                   /\ Val(dk_last).before # "running" =>
        LET l == Val(dk_last)
            launched == \E i \in DockerEvents(l, "start") \cup DockerEvents(l, "run") :
                            l.trace[i].val = "ok"
        IN  /\ l.how = "returned"
            /\ l.value \in {"True", "False"}
            /\ l.probes <= max_retries
            /\ l.value = "True" => l.probe_ok
            /\ l.value = "False" /\ launched => l.probes = max_retries /\ ~l.probe_ok

\* C19: when start() returns True the container is running and, unless it
\* was running already, a readiness probe succeeded in that call; called on
\* a running container start() returns True without any probe.
C19_TrueMeansRunning ==
    IsSet(dk_last) /\ Val(dk_last).cmd = "start" =>
        LET l == Val(dk_last)
        IN  /\ l.how = "returned" /\ l.value = "True" =>
                  /\ l.after = "running"
                  /\ l.before # "running" => l.probe_ok
            /\ l.before = "running" =>
                  /\ l.how = "returned"
                  /\ l.value = "True"
                  /\ l.probes = 0
====
